---- MODULE Spec2Model ----
(***************************************************************************)
(* The food-truck order API: the key-value handler (one JSON array of      *)
(* orders under one key, read whole and written whole by every request)    *)
(* and the relational handler (one row per order).                         *)
(*                                                                         *)
(* A request is handled in the steps its awaits cut it into: the step that *)
(* reads the collection and computes the change, and the step that writes  *)
(* the collection back and responds.  Between the two, other requests run. *)
(***************************************************************************)
EXTENDS Integers, Sequences, FiniteSets, TLC

VARIABLES
    store,       \* key-value store: the collection under ORDERS_KEY
    rows,        \* relational store: the rows of table orders, in insertion order
    clock,       \* the server clock, in milliseconds (Date.now())
    pc,          \* per request slot: "idle" | "write" (between the read and the write)
    slot,        \* per request slot: the handler's locals while it awaits the write
    last,        \* the request completed last, with its response
    prev,        \* the request completed before it, with its response
    budget,      \* requests the client may still send
    faulty,      \* environment: store calls may fail
    serial,      \* environment: the client sends one request at a time
    configured   \* relational handler: supabase client is not null

vars == <<store, rows, clock, pc, slot, last, prev, budget, faulty, serial, configured>>

-----------------------------------------------------------------------------
(* Bounds *)

MaxClock == 2
NReq == 2
MaxRequests == 3
MaxConcurrentRequests == 3
MaxFaultyRequests == 3
MaxFairRequests == 2

Req == 1..NReq

-----------------------------------------------------------------------------
(* Values *)

Range(s) == {s[i] : i \in 1..Len(s)}

\* new Date().toISOString(): an ISO-8601 string, one per millisecond, ordered as
\* the milliseconds are.  Distinct from the number Date.now() gives.
ISO(t) == <<"iso", t>>
IsoTime(s) == s[2]

\* new Date().toLocaleTimeString() / toLocaleDateString(): second and day granularity.
LocaleTime(t) == <<"time", t \div 1000>>
LocaleDate(t) == <<"date", t \div 86400000>>

EmptyObj == [f \in {} |-> 0]
NoId == -1

\* a JSON object with the fields of b laid over those of a: {...a, ...b}
Spread(a, b) == [f \in DOMAIN a \cup DOMAIN b |-> IF f \in DOMAIN b THEN b[f] ELSE a[f]]

Has(obj, f) == f \in DOMAIN obj

\* a response body that is a JSON array and not a JSON object: res.json(orders)
JsonArray(orders) == [array |-> orders]

\* body.f || d, for a field whose falsy value is `falsy` (0 for numbers, "" for strings)
OrElse(body, f, falsy, d) == IF Has(body, f) /\ body[f] # falsy THEN body[f] ELSE d

\* body.items || []: an array, even an empty one, is truthy
ItemsOrElse(body) == IF Has(body, "items") THEN body["items"] ELSE <<>>

-----------------------------------------------------------------------------
(* Requests *)

IdPath == "/api/orders/:digits"

Request(m, p, id, body) == [method |-> m, p |-> p, id |-> id, body |-> body]

\* ids a path can carry: every id the clock can give, and one no order ever has
PathIds == 1..(MaxClock + 1)

PostBodies == {EmptyObj, [total |-> 8]}

PatchBodies ==
    { [status |-> "ready"],
      [id |-> 1, createdAt |-> ISO(MaxClock + 1)],
      [status |-> "completed", updatedAt |-> ISO(0)] }

Requests ==
    {Request("OPTIONS", "/api/orders", NoId, EmptyObj)}
    \cup {Request("GET", p, NoId, EmptyObj) : p \in {"/api/health", "/api/orders", "/api/unknown"}}
    \cup {Request("POST", "/api/orders", NoId, b) : b \in PostBodies}
    \cup {Request("GET", IdPath, i, EmptyObj) : i \in PathIds}
    \cup {Request("PATCH", IdPath, i, b) : i \in PathIds, b \in PatchBodies}
    \cup {Request("DELETE", IdPath, i, EmptyObj) : i \in PathIds}
    \cup {Request("DELETE", "/api/orders", NoId, EmptyObj)}
    \cup {Request("DELETE", "/api/orders/abc", NoId, EmptyObj)}

\* bodies sent to the handlers that spread the body into the new order
SpreadBodies ==
    { [total |-> 8],
      [id |-> MaxClock + 1, status |-> "ready", createdAt |-> ISO(0)] }

\* The handler's chain of ifs on method and path, in the order of the code.
\* path.match(/^\/api\/orders\/(\d+)$/) holds of IdPath alone.
Route(req) ==
    CASE req.method = "OPTIONS" -> "options"
      [] req.method = "GET" /\ req.p \in {"/api", "/api/health", "/"} -> "health"
      [] req.method = "GET" /\ req.p = "/api/orders" -> "list"
      [] req.method = "POST" /\ req.p = "/api/orders" -> "create"
      [] req.method = "GET" /\ req.p = IdPath -> "get"
      [] req.method = "PATCH" /\ req.p = IdPath -> "update"
      [] req.method = "DELETE" /\ req.p = IdPath -> "delete"
      [] req.method = "DELETE" /\ req.p = "/api/orders" -> "clear"
      [] OTHER -> "notfound"

Routed(route) == {req \in Requests : Route(req) = route}

-----------------------------------------------------------------------------
(* The key-value handler's computations *)

\* readOrders: the collection, [] when the key is unset or the read throws
readOrders(ok) == IF ok THEN store ELSE <<>>

\* NewOrder with the client's total forgotten
NewOrderNoTotal(body, now) ==
    [ id            |-> now,
      items         |-> ItemsOrElse(body),
      total         |-> 0,
      type          |-> OrElse(body, "type", "", "eat"),
      customerName  |-> OrElse(body, "customerName", "", ""),
      customerPhone |-> OrElse(body, "customerPhone", "", ""),
      timestamp     |-> IF Has(body, "timestamp") THEN body["timestamp"] ELSE LocaleTime(now),
      date          |-> IF Has(body, "date") THEN body["date"] ELSE LocaleDate(now),
      status        |-> "pending",
      createdAt     |-> ISO(now),
      stampedAt     |-> now ]

\* newOrder of POST /api/orders.  stampedAt is a history field, not a field of
\* the program's order: the clock at creation, which no request overwrites.
NewOrder(body, now) ==
    [ id            |-> now,
      items         |-> ItemsOrElse(body),
      total         |-> OrElse(body, "total", 0, 0),
      type          |-> OrElse(body, "type", "", "eat"),
      customerName  |-> OrElse(body, "customerName", "", ""),
      customerPhone |-> OrElse(body, "customerPhone", "", ""),
      timestamp     |-> IF Has(body, "timestamp") THEN body["timestamp"] ELSE LocaleTime(now),
      date          |-> IF Has(body, "date") THEN body["date"] ELSE LocaleDate(now),
      status        |-> "pending",
      createdAt     |-> ISO(now),
      stampedAt     |-> now ]

\* newOrder of the handlers that spread the body (the express app, and the
\* first handler of api/index.js): { id: Date.now(), ...req.body, status, createdAt }
NewOrderSpread(body, now) ==
    Spread(Spread([id |-> now], body),
           [status |-> "pending", createdAt |-> ISO(now), stampedAt |-> now])

\* orders.findIndex(o => o.id === id): the first such index, 0 when there is none
FindIndex(orders, id) ==
    IF \E i \in 1..Len(orders) : orders[i].id = id
    THEN CHOOSE i \in 1..Len(orders) :
            /\ orders[i].id = id
            /\ \A j \in 1..(i - 1) : orders[j].id # id
    ELSE 0

\* UpdatedOrder without the spread of the order found: { ...body, updatedAt }
UpdatedOrderReplaced(order, body, now) == Spread(body, [updatedAt |-> ISO(now)])

\* UpdatedOrder with the stamp laid under the body: { ...order, updatedAt, ...body }
UpdatedOrderBodyLast(order, body, now) == Spread(Spread(order, [updatedAt |-> ISO(now)]), body)

\* UpdatedOrder with a completed order kept as it is
UpdatedOrderTerminal(order, body, now) ==
    IF order.status = "completed"
    THEN Spread(order, [updatedAt |-> ISO(now)])
    ELSE Spread(Spread(order, body), [updatedAt |-> ISO(now)])

\* { ...orders[orderIndex], ...body, updatedAt: new Date().toISOString() }
UpdatedOrder(order, body, now) == Spread(Spread(order, body), [updatedAt |-> ISO(now)])

\* orders.filter(o => o.id !== id)
Filtered(orders, id) == SelectSeq(orders, LAMBDA o : o.id # id)

-----------------------------------------------------------------------------
(* Responses, and the record of the two requests completed last *)

NoReq == Request("", "", NoId, EmptyObj)

IdleSlot == [req |-> NoReq, snap |-> <<>>, local |-> <<>>, out |-> EmptyObj, stale |-> FALSE]

\* wrote: "none" (no write attempted), "ok" (writeOrders gave true), "failed" (false).
\* snap: the collection readOrders gave (<<>> when the request read nothing).
\* stale: another request wrote the collection between this one's read and its write.
\* before: the persisted collection (the table, for the relational handler) as
\* it was when the request made its last store call, or answered without one.
Entry(req, status, body, snap, wrote, stale) ==
    [req |-> req, status |-> status, body |-> body, snap |-> snap,
     wrote |-> wrote, stale |-> stale, before |-> store]

RelEntry(req, status, body, wrote) ==
    [req |-> req, status |-> status, body |-> body, snap |-> <<>>,
     wrote |-> wrote, stale |-> FALSE, before |-> rows]

NoEntry ==
    [req |-> NoReq, status |-> 0, body |-> EmptyObj, snap |-> <<>>,
     wrote |-> "none", stale |-> FALSE, before |-> <<>>]

Respond(e) == last' = e /\ prev' = last
NoResponse == UNCHANGED <<last, prev>>

ReadOutcomes == IF faulty THEN {TRUE, FALSE} ELSE {TRUE}
WriteOutcomes == IF faulty THEN {TRUE, FALSE} ELSE {TRUE}

\* a request may start: one at a time when the client is serial
MayStart == budget > 0 /\ (serial => \A q \in Req : pc[q] = "idle")
Sent == budget' = budget - 1

\* the slot a request that awaits its write takes: the first free one
FreeSlot(r) == pc[r] = "idle" /\ \A q \in 1..(r - 1) : pc[q] # "idle"

\* a write by request r (0: a request that holds no slot) makes every other
\* request's snapshot stale
Staled(r) == [q \in Req |-> IF q # r /\ pc[q] = "write"
                            THEN [slot[q] EXCEPT !.stale = TRUE] ELSE slot[q]]

-----------------------------------------------------------------------------
(* The key-value handler: one action per route, and the continuation after
   the await of writeOrders *)

KvFrame == UNCHANGED <<rows, clock, faulty, serial, configured>>

\* OPTIONS: 200 with no body
Options ==
    /\ MayStart
    /\ Sent
    /\ \E req \in Routed("options") :
          Respond(Entry(req, 200, EmptyObj, <<>>, "none", FALSE))
    /\ UNCHANGED <<store, pc, slot>>
    /\ KvFrame

\* GET /api, /api/health, /
Health ==
    /\ MayStart
    /\ Sent
    /\ \E req \in Routed("health") :
          Respond(Entry(req, 200,
                        [status |-> "OK", timestamp |-> ISO(clock), storage |-> "Vercel KV"],
                        <<>>, "none", FALSE))
    /\ UNCHANGED <<store, pc, slot>>
    /\ KvFrame

\* GET /api/orders
ListOrders ==
    /\ MayStart
    /\ Sent
    /\ \E req \in Routed("list"), ok \in ReadOutcomes :
          LET orders == readOrders(ok)
          IN  Respond(Entry(req, 200, JsonArray(orders), orders, "none", FALSE))
    /\ UNCHANGED <<store, pc, slot>>
    /\ KvFrame

\* GetOrder stamping the order found and writing the collection back
GetOrderTouching ==
    /\ MayStart
    /\ Sent
    /\ \E req \in Routed("get"), ok \in ReadOutcomes :
          LET orders == readOrders(ok)
              i == FindIndex(orders, req.id)
          IN  IF i = 0
              THEN /\ Respond(Entry(req, 404, [error |-> "Order not found"], orders, "none", FALSE))
                   /\ UNCHANGED <<store, slot>>
              ELSE /\ store' = [orders EXCEPT ![i] = Spread(orders[i], [viewedAt |-> ISO(clock)])]
                   /\ slot' = Staled(0)
                   /\ Respond(Entry(req, 200, orders[i], orders, "ok", FALSE))
    /\ UNCHANGED pc
    /\ KvFrame

\* GET /api/orders/:id
GetOrder ==
    /\ MayStart
    /\ Sent
    /\ \E req \in Routed("get"), ok \in ReadOutcomes :
          LET orders == readOrders(ok)
              i == FindIndex(orders, req.id)
          IN  IF i = 0
              THEN Respond(Entry(req, 404, [error |-> "Order not found"], orders, "none", FALSE))
              ELSE Respond(Entry(req, 200, orders[i], orders, "none", FALSE))
    /\ UNCHANGED <<store, pc, slot>>
    /\ KvFrame

\* POST /api/orders, up to the await of writeOrders
CreateOrder(r) ==
    /\ MayStart
    /\ Sent
    /\ FreeSlot(r)
    /\ \E req \in Routed("create"), ok \in ReadOutcomes :
          LET orders == readOrders(ok)
              newOrder == NewOrder(req.body, clock)
          IN  slot' = [slot EXCEPT ![r] = [req |-> req, snap |-> orders,
                                           local |-> Append(orders, newOrder),
                                           out |-> newOrder, stale |-> FALSE]]
    /\ pc' = [pc EXCEPT ![r] = "write"]
    /\ UNCHANGED store /\ NoResponse
    /\ KvFrame

\* POST /api/orders of the handlers that spread the body, up to the await of
\* writeOrders
CreateOrderSpread(r) ==
    /\ MayStart
    /\ Sent
    /\ FreeSlot(r)
    /\ \E body \in SpreadBodies, ok \in ReadOutcomes :
          LET req == Request("POST", "/api/orders", NoId, body)
              orders == readOrders(ok)
              newOrder == NewOrderSpread(body, clock)
          IN  slot' = [slot EXCEPT ![r] = [req |-> req, snap |-> orders,
                                           local |-> Append(orders, newOrder),
                                           out |-> newOrder, stale |-> FALSE]]
    /\ pc' = [pc EXCEPT ![r] = "write"]
    /\ UNCHANGED store /\ NoResponse
    /\ KvFrame

\* PATCH /api/orders/:id, up to the 404 or the await of writeOrders
UpdateOrder(r) ==
    /\ MayStart
    /\ Sent
    /\ FreeSlot(r)
    /\ \E req \in Routed("update"), ok \in ReadOutcomes :
          LET orders == readOrders(ok)
              orderIndex == FindIndex(orders, req.id)
          IN  IF orderIndex = 0
              THEN /\ Respond(Entry(req, 404, [error |-> "Order not found"], orders, "none", FALSE))
                   /\ UNCHANGED <<pc, slot>>
              ELSE LET updated == UpdatedOrder(orders[orderIndex], req.body, clock)
                   IN  /\ slot' = [slot EXCEPT ![r] =
                                      [req |-> req, snap |-> orders,
                                       local |-> [orders EXCEPT ![orderIndex] = updated],
                                       out |-> updated, stale |-> FALSE]]
                       /\ pc' = [pc EXCEPT ![r] = "write"]
                       /\ NoResponse
    /\ UNCHANGED store
    /\ KvFrame

\* DELETE /api/orders/:id, up to the 404 or the await of writeOrders
DeleteOrder(r) ==
    /\ MayStart
    /\ Sent
    /\ FreeSlot(r)
    /\ \E req \in Routed("delete"), ok \in ReadOutcomes :
          LET orders == readOrders(ok)
              filteredOrders == Filtered(orders, req.id)
          IN  IF Len(orders) = Len(filteredOrders)
              THEN /\ Respond(Entry(req, 404, [error |-> "Order not found"], orders, "none", FALSE))
                   /\ UNCHANGED <<pc, slot>>
              ELSE /\ slot' = [slot EXCEPT ![r] =
                                  [req |-> req, snap |-> orders, local |-> filteredOrders,
                                   out |-> [message |-> "Order deleted successfully"],
                                   stale |-> FALSE]]
                   /\ pc' = [pc EXCEPT ![r] = "write"]
                   /\ NoResponse
    /\ UNCHANGED store
    /\ KvFrame

SavedStatus(req) == IF Route(req) = "create" THEN 201 ELSE 200

\* NotSavedError with the text under message, not under error
NotSavedNoErrorKey(req) ==
    CASE Route(req) = "create" -> [message |-> "Failed to save order"]
      [] Route(req) = "update" -> [message |-> "Failed to update order"]
      [] OTHER -> [message |-> "Failed to delete order"]

NotSavedError(req) ==
    CASE Route(req) = "create" -> [error |-> "Failed to save order"]
      [] Route(req) = "update" -> [error |-> "Failed to update order"]
      [] OTHER -> [error |-> "Failed to delete order"]

\* WriteOrders with a create appended to the collection as it is at the write,
\* not to the collection read
WriteOrdersAppending(r) ==
    /\ pc[r] = "write"
    /\ \E saved \in WriteOutcomes :
          IF saved
          THEN /\ store' = IF Route(slot[r].req) = "create"
                           THEN Append(store, slot[r].out) ELSE slot[r].local
               /\ slot' = [Staled(r) EXCEPT ![r] = IdleSlot]
               /\ Respond(Entry(slot[r].req, SavedStatus(slot[r].req), slot[r].out,
                                slot[r].snap, "ok", slot[r].stale))
          ELSE /\ store' = store
               /\ slot' = [slot EXCEPT ![r] = IdleSlot]
               /\ Respond(Entry(slot[r].req, 500, NotSavedError(slot[r].req),
                                slot[r].snap, "failed", slot[r].stale))
    /\ pc' = [pc EXCEPT ![r] = "idle"]
    /\ UNCHANGED budget
    /\ KvFrame

\* WriteOrders with a set that throws after the collection was overwritten
WriteOrdersTorn(r) ==
    /\ pc[r] = "write"
    /\ \E saved \in WriteOutcomes :
          /\ store' = slot[r].local
          /\ slot' = [Staled(r) EXCEPT ![r] = IdleSlot]
          /\ IF saved
             THEN Respond(Entry(slot[r].req, SavedStatus(slot[r].req), slot[r].out,
                                slot[r].snap, "ok", slot[r].stale))
             ELSE Respond(Entry(slot[r].req, 500, NotSavedError(slot[r].req),
                                slot[r].snap, "failed", slot[r].stale))
    /\ pc' = [pc EXCEPT ![r] = "idle"]
    /\ UNCHANGED budget
    /\ KvFrame

\* writeOrders(orders) of POST, PATCH and DELETE by id, and the response after it:
\* kv.set overwrites the whole collection; a set that throws writes nothing
WriteOrders(r) ==
    /\ pc[r] = "write"
    /\ \E saved \in WriteOutcomes :
          IF saved
          THEN /\ store' = slot[r].local
               /\ slot' = [Staled(r) EXCEPT ![r] = IdleSlot]
               /\ Respond(Entry(slot[r].req, SavedStatus(slot[r].req), slot[r].out,
                                slot[r].snap, "ok", slot[r].stale))
          ELSE /\ store' = store
               /\ slot' = [slot EXCEPT ![r] = IdleSlot]
               /\ Respond(Entry(slot[r].req, 500, NotSavedError(slot[r].req),
                                slot[r].snap, "failed", slot[r].stale))
    /\ pc' = [pc EXCEPT ![r] = "idle"]
    /\ UNCHANGED budget
    /\ KvFrame

\* ClearOrders answering as delete by id does when there is nothing to remove
ClearOrdersNotFoundWhenEmpty ==
    /\ MayStart
    /\ Sent
    /\ \E req \in Routed("clear"), saved \in WriteOutcomes :
          IF store = <<>>
          THEN /\ Respond(Entry(req, 404, [error |-> "Order not found"], <<>>, "none", FALSE))
               /\ UNCHANGED <<store, slot>>
          ELSE /\ store' = IF saved THEN <<>> ELSE store
               /\ slot' = IF saved THEN Staled(0) ELSE slot
               /\ Respond(Entry(req, 200, [message |-> "All orders cleared"], <<>>,
                                IF saved THEN "ok" ELSE "failed", FALSE))
    /\ UNCHANGED pc
    /\ KvFrame

\* DELETE /api/orders: await writeOrders([]), its result not looked at
ClearOrders ==
    /\ MayStart
    /\ Sent
    /\ \E req \in Routed("clear"), saved \in WriteOutcomes :
          /\ store' = IF saved THEN <<>> ELSE store
          /\ slot' = IF saved THEN Staled(0) ELSE slot
          /\ Respond(Entry(req, 200, [message |-> "All orders cleared"], <<>>,
                           IF saved THEN "ok" ELSE "failed", FALSE))
    /\ UNCHANGED pc
    /\ KvFrame

\* no route matched
RouteNotFound ==
    /\ MayStart
    /\ Sent
    /\ \E req \in Routed("notfound") :
          Respond(Entry(req, 404,
                        [error |-> "Route not found", path |-> req.p, method |-> req.method],
                        <<>>, "none", FALSE))
    /\ UNCHANGED <<store, pc, slot>>
    /\ KvFrame

\* no route matched, in the first handler of api/index.js: the error alone
RouteNotFoundBare ==
    /\ MayStart
    /\ Sent
    /\ \E req \in Routed("notfound") :
          Respond(Entry(req, 404, [error |-> "Not found"], <<>>, "none", FALSE))
    /\ UNCHANGED <<store, pc, slot>>
    /\ KvFrame

\* the clock moves on
Tick ==
    /\ clock < MaxClock
    /\ clock' = clock + 1
    /\ UNCHANGED <<store, rows, pc, slot, last, prev, budget, faulty, serial, configured>>

-----------------------------------------------------------------------------
(* The relational handler: one row per order in table orders, each request
   one call of the store *)

Null == <<"null", 0>>

\* a timestamptz column filled by the table's default now()
DbNow(t) == <<"timestamptz", t>>

\* orderData of POST /api/orders
OrderData(body, now) ==
    [ order_number    |-> now,
      items           |-> ItemsOrElse(body),
      total           |-> OrElse(body, "total", 0, 0),
      order_type      |-> OrElse(body, "type", "", "eat"),
      customer_name   |-> OrElse(body, "customerName", "", ""),
      customer_phone  |-> OrElse(body, "customerPhone", "", ""),
      order_timestamp |-> IF Has(body, "timestamp") THEN body["timestamp"] ELSE LocaleTime(now),
      order_date      |-> IF Has(body, "date") THEN body["date"] ELSE LocaleDate(now),
      status          |-> "pending" ]

\* the row the table stores for orderData: the columns the handler does not
\* send take the table's defaults
InsertedRow(orderData, rowId, now) ==
    Spread(orderData, [id |-> rowId, created_at |-> DbNow(now), updated_at |-> Null])

\* the next value of the table's id sequence
NextRowId == IF rows = <<>> THEN 1 ELSE rows[Len(rows)].id + 1

\* the order sent to the client for a row, without and with updatedAt
RowToOrder(row) ==
    [ id            |-> row.order_number,
      items         |-> row.items,
      total         |-> row.total,
      type          |-> row.order_type,
      customerName  |-> row.customer_name,
      customerPhone |-> row.customer_phone,
      timestamp     |-> row.order_timestamp,
      date          |-> row.order_date,
      status        |-> row.status,
      createdAt     |-> row.created_at ]

RowToOrderUpdated(row) == Spread(RowToOrder(row), [updatedAt |-> row.updated_at])

\* .eq('order_number', orderNumber)
Matching(orderNumber) == {i \in 1..Len(rows) : rows[i].order_number = orderNumber}

\* updates of PATCH: status is sent only when the body has one
\* (JSON.stringify drops an undefined field)
Updates(body, now) ==
    IF Has(body, "status")
    THEN [status |-> body["status"], updated_at |-> ISO(now)]
    ELSE [updated_at |-> ISO(now)]

\* .order('created_at', { ascending: false }): the rows, latest first; rows of
\* one created_at in either order
Orderings(n) == {f \in [1..n -> 1..n] : \A i, j \in 1..n : i # j => f[i] # f[j]}

LatestFirst ==
    {[i \in 1..Len(rows) |-> rows[f[i]]] : f \in
        {g \in Orderings(Len(rows)) :
            \A i, j \in 1..Len(rows) :
                i < j => rows[g[i]].created_at[2] >= rows[g[j]].created_at[2]}}

StoreOutcomes == IF faulty THEN {TRUE, FALSE} ELSE {TRUE}

RelFrame == UNCHANGED <<store, clock, pc, slot, faulty, serial, configured>>

RelOptions ==
    /\ MayStart
    /\ Sent
    /\ \E req \in Routed("options") :
          Respond(RelEntry(req, 200, EmptyObj, "none"))
    /\ UNCHANGED rows
    /\ RelFrame

RelHealth ==
    /\ MayStart
    /\ Sent
    /\ \E req \in Routed("health") :
          Respond(RelEntry(req, 200,
                        [status |-> "OK", timestamp |-> ISO(clock),
                         storage |-> IF configured THEN "Supabase PostgreSQL (Persistent)"
                                     ELSE "Not Configured",
                         dbConfigured |-> configured], "none"))
    /\ UNCHANGED rows
    /\ RelFrame

RelListOrders ==
    /\ MayStart
    /\ Sent
    /\ \E req \in Routed("list"), ok \in StoreOutcomes :
          IF ~configured
          THEN Respond(RelEntry(req, 200, JsonArray(<<>>), "none"))
          ELSE IF ~ok
          THEN Respond(RelEntry(req, 500, [error |-> "Failed to fetch orders"], "none"))
          ELSE \E data \in LatestFirst :
                  Respond(RelEntry(req, 200,
                                JsonArray([i \in 1..Len(data) |-> RowToOrderUpdated(data[i])]),
                                "none"))
    /\ UNCHANGED rows
    /\ RelFrame

\* RelCreateOrder without the guard on the client
RelCreateOrderUnguarded ==
    /\ MayStart
    /\ Sent
    /\ \E req \in Routed("create"), ok \in StoreOutcomes :
          IF ~ok
          THEN /\ Respond(RelEntry(req, 500, [error |-> "Failed to save order"], "failed"))
               /\ UNCHANGED rows
          ELSE LET data == InsertedRow(OrderData(req.body, clock), NextRowId, clock)
               IN  /\ rows' = Append(rows, data)
                   /\ Respond(RelEntry(req, 201, RowToOrder(data), "ok"))
    /\ RelFrame

\* POST /api/orders
RelCreateOrder ==
    /\ MayStart
    /\ Sent
    /\ \E req \in Routed("create"), ok \in StoreOutcomes :
          IF ~configured
          THEN /\ Respond(RelEntry(req, 500, [error |-> "Database not configured"], "none"))
               /\ UNCHANGED rows
          ELSE IF ~ok
          THEN /\ Respond(RelEntry(req, 500, [error |-> "Failed to save order"], "failed"))
               /\ UNCHANGED rows
          ELSE LET data == InsertedRow(OrderData(req.body, clock), NextRowId, clock)
               IN  /\ rows' = Append(rows, data)
                   /\ Respond(RelEntry(req, 201, RowToOrder(data), "ok"))
    /\ RelFrame

\* .select('*').eq('order_number', n).single(): an error unless one row matches
RelGetOrder ==
    /\ MayStart
    /\ Sent
    /\ \E req \in Routed("get"), ok \in StoreOutcomes :
          IF ~configured \/ ~ok \/ Cardinality(Matching(req.id)) # 1
          THEN Respond(RelEntry(req, 404, [error |-> "Order not found"], "none"))
          ELSE LET i == CHOOSE i \in Matching(req.id) : TRUE
               IN  Respond(RelEntry(req, 200, RowToOrder(rows[i]), "none"))
    /\ UNCHANGED rows
    /\ RelFrame

\* .update(updates).eq('order_number', n).select().single(): an error, and no
\* row updated, unless one row matches
RelUpdateOrder ==
    /\ MayStart
    /\ Sent
    /\ \E req \in Routed("update"), ok \in StoreOutcomes :
          IF ~configured \/ ~ok \/ Cardinality(Matching(req.id)) # 1
          THEN /\ Respond(RelEntry(req, 404, [error |-> "Order not found"], IF configured THEN "failed" ELSE "none"))
               /\ UNCHANGED rows
          ELSE LET i == CHOOSE i \in Matching(req.id) : TRUE
                   data == Spread(rows[i], Updates(req.body, clock))
               IN  /\ rows' = [rows EXCEPT ![i] = data]
                   /\ Respond(RelEntry(req, 200, RowToOrderUpdated(data), "ok"))
    /\ RelFrame

\* .delete().eq('order_number', n): every matching row goes; no row matching is
\* no error
RelDeleteOrder ==
    /\ MayStart
    /\ Sent
    /\ \E req \in Routed("delete"), ok \in StoreOutcomes :
          IF ~configured
          THEN /\ Respond(RelEntry(req, 404, [error |-> "Order not found"], "none"))
               /\ UNCHANGED rows
          ELSE IF ~ok
          THEN /\ Respond(RelEntry(req, 404, [error |-> "Order not found"], "failed"))
               /\ UNCHANGED rows
          ELSE /\ rows' = SelectSeq(rows, LAMBDA row : row.order_number # req.id)
               /\ Respond(RelEntry(req, 200, [message |-> "Order deleted successfully"], "ok"))
    /\ RelFrame

\* .delete().neq('id', 0)
RelClearOrders ==
    /\ MayStart
    /\ Sent
    /\ \E req \in Routed("clear"), ok \in StoreOutcomes :
          IF ~configured
          THEN /\ Respond(RelEntry(req, 500, [error |-> "Database not configured"], "none"))
               /\ UNCHANGED rows
          ELSE IF ~ok
          THEN /\ Respond(RelEntry(req, 500, [error |-> "Failed to clear orders"], "failed"))
               /\ UNCHANGED rows
          ELSE /\ rows' = SelectSeq(rows, LAMBDA row : row.id = 0)
               /\ Respond(RelEntry(req, 200, [message |-> "All orders cleared"], "ok"))
    /\ RelFrame

RelRouteNotFound ==
    /\ MayStart
    /\ Sent
    /\ \E req \in Routed("notfound") :
          Respond(RelEntry(req, 404,
                        [error |-> "Route not found", path |-> req.p, method |-> req.method], "none"))
    /\ UNCHANGED rows
    /\ RelFrame

-----------------------------------------------------------------------------
(* Specifications *)

Start(f, s, n, c) ==
    /\ store = <<>>
    /\ rows = <<>>
    /\ clock = 1
    /\ pc = [r \in Req |-> "idle"]
    /\ slot = [r \in Req |-> IdleSlot]
    /\ last = NoEntry
    /\ prev = NoEntry
    /\ budget = n
    /\ faulty = f
    /\ serial = s
    /\ configured = c

Next ==
    \/ Options
    \/ Health
    \/ ListOrders
    \/ GetOrder
    \/ \E r \in Req : CreateOrder(r)
    \/ \E r \in Req : UpdateOrder(r)
    \/ \E r \in Req : DeleteOrder(r)
    \/ \E r \in Req : WriteOrders(r)
    \/ ClearOrders
    \/ RouteNotFound
    \/ Tick

\* one request at a time, a store that does not fail
Init == Start(FALSE, TRUE, MaxRequests, TRUE)
Spec == Init /\ [][Next]_vars

\* one request at a time, a store whose calls may fail
InitFaulty == Start(TRUE, TRUE, MaxFaultyRequests, TRUE)
SpecFaulty == InitFaulty /\ [][Next]_vars

\* the same, every store call in the end returning or throwing: a request that
\* awaits its write goes on
InitFaultyFair == Start(TRUE, TRUE, MaxFairRequests, TRUE)
SpecFaultyFair ==
    InitFaultyFair /\ [][Next]_vars /\ \A r \in Req : WF_vars(WriteOrders(r))

\* requests that overlap, a store that does not fail
InitConcurrent == Start(FALSE, FALSE, MaxConcurrentRequests, TRUE)
SpecConcurrent == InitConcurrent /\ [][Next]_vars

\* the first handler of api/index.js, which spreads the body into the new
\* order (as the express app does) and answers an unknown route with the error
\* alone; its other routes are those of the key-value handler
NextSpread ==
    \/ Options
    \/ Health
    \/ ListOrders
    \/ GetOrder
    \/ \E r \in Req : CreateOrderSpread(r)
    \/ \E r \in Req : UpdateOrder(r)
    \/ \E r \in Req : DeleteOrder(r)
    \/ \E r \in Req : WriteOrders(r)
    \/ ClearOrders
    \/ RouteNotFoundBare
    \/ Tick

InitSpread == Start(FALSE, TRUE, MaxRequests, TRUE)
SpecSpread == InitSpread /\ [][NextSpread]_vars

\* the end-to-end scenario: a client that sends, one at a time, create A,
\* create B, list, delete by the id of the first order listed, list
Scenario == <<"create", "create", "list", "delete", "list">>

ScenarioStep(route) == budget > 0 /\ Scenario[Len(Scenario) - budget + 1] = route

NextScenario ==
    \/ ScenarioStep("create") /\ \E r \in Req : CreateOrder(r)
    \/ ScenarioStep("list") /\ ListOrders
    \/ ScenarioStep("delete") /\ \E r \in Req :
          /\ DeleteOrder(r)
          /\ \/ pc'[r] = "write" /\ slot'[r].req.id = last.body.array[1].id
             \/ pc'[r] = "idle" /\ last'.req.id = last.body.array[1].id
    \/ \E r \in Req : WriteOrders(r)
    \/ Tick

InitScenario == Start(FALSE, TRUE, Len(Scenario), TRUE)
SpecScenario == InitScenario /\ [][NextScenario]_vars

NextRel ==
    \/ RelOptions
    \/ RelHealth
    \/ RelListOrders
    \/ RelCreateOrder
    \/ RelGetOrder
    \/ RelUpdateOrder
    \/ RelDeleteOrder
    \/ RelClearOrders
    \/ RelRouteNotFound
    \/ Tick

\* the relational handler, with and without its store configured, the store's
\* calls failing or not
InitRel == \E c \in BOOLEAN : Start(TRUE, TRUE, MaxRequests, c)
SpecRel == InitRel /\ [][NextRel]_vars

\* the relational handler with no store configured
InitRelUnconfigured == Start(TRUE, TRUE, MaxRequests, FALSE)
SpecRelUnconfigured == InitRelUnconfigured /\ [][NextRel]_vars

-----------------------------------------------------------------------------
(* Properties *)

IsRoute(e, route) == e.req # NoReq /\ Route(e.req) = route
Created(e) == IsRoute(e, "create") /\ e.status = 201
Listed(e) == IsRoute(e, "list") /\ e.status = 200
Updated(e) == IsRoute(e, "update") /\ e.status = 200
Deleted(e) == IsRoute(e, "delete") /\ e.status = 200
Cleared(e) == IsRoute(e, "clear") /\ e.status = 200
Ids(orders) == {orders[i].id : i \in 1..Len(orders)}

\* C1 (as stated): with requests one at a time and no store failure, the list
\* fetched right after a create that answered 201 holds an order with the id of
\* the 201 response, status "pending" and total equal to the total of the body.
RoundTripBodyTotal ==
    (Created(prev) /\ Listed(last)) =>
        \E o \in Range(last.body.array) :
            /\ o.id = prev.body.id
            /\ o.status = "pending"
            /\ Has(prev.req.body, "total")
            /\ o.total = prev.req.body["total"]

\* C1 (amended): the same, the total being that of the body when the body has a
\* total other than 0, and 0 when it has none.
RoundTrip ==
    (Created(prev) /\ Listed(last)) =>
        /\ prev.body.id \in Int
        /\ \E o \in Range(last.body.array) :
              /\ o.id = prev.body.id
              /\ o.status = "pending"
              /\ Has(prev.req.body, "total") => o.total = prev.req.body["total"]
              /\ ~Has(prev.req.body, "total") => o.total = 0

RoundTripWitness ==
    /\ Created(prev)
    /\ Listed(last)
    /\ prev.req.body = [total |-> 8]
    /\ \E o \in Range(last.body.array) : o.id = prev.body.id /\ o.total = 8 /\ o.status = "pending"

\* C2: two requests that create or update can race.  When a create or update
\* answers with success after another did, having read the collection before
\* that other wrote, the order the other wrote is not in the persisted
\* collection, unless the collection read held an equal order already or the
\* later writer wrote an equal one itself.
LostUpdate ==
    ( /\ Created(prev) \/ Updated(prev)
      /\ Created(last) \/ Updated(last)
      /\ last.stale
      /\ prev.body \notin Range(last.snap)
      /\ prev.body # last.body )
    => prev.body \notin Range(store)

\* both creates read the same collection before either wrote, both answered
\* 201, and the order of the first is gone
LostUpdateWitness ==
    /\ Created(prev) /\ Created(last)
    /\ last.stale /\ ~prev.stale
    /\ prev.snap = last.snap
    /\ prev.body # last.body
    /\ prev.body \notin Range(store)
    /\ last.body \in Range(store)
    /\ pc = [r \in Req |-> "idle"]

\* the same for a create and an update, and for two updates of two orders
LostUpdateCreateUpdate ==
    /\ Created(prev) /\ Updated(last)
    /\ last.stale /\ ~prev.stale /\ prev.snap = last.snap
    /\ prev.body \notin Range(store)

LostUpdateUpdateUpdate ==
    /\ Updated(prev) /\ Updated(last)
    /\ last.stale /\ ~prev.stale /\ prev.snap = last.snap
    /\ prev.body \notin Range(store)
    /\ prev.body \notin Range(last.snap)

\* C3: no two orders of the persisted collection have the same id.
UniqueIds ==
    \A i, j \in 1..Len(store) : i # j => store[i].id # store[j].id

\* C4: with requests one at a time and no store failure, a delete by id that
\* answers 200 leaves the collection one order shorter than it found it, with no
\* order of that id, and so does the list fetched next.
DeleteRemovesOne ==
    /\ Deleted(last) =>
          /\ Len(store) = Len(last.before) - 1
          /\ last.req.id \notin Ids(store)
    /\ (Deleted(prev) /\ Listed(last)) =>
          /\ Len(last.body.array) = Len(prev.before) - 1
          /\ prev.req.id \notin Ids(last.body.array)

\* C5: with requests one at a time, an update with body {status: "ready"} that
\* answers 200 changes the status and updatedAt of the order it names and
\* nothing else: that order's other fields, the other orders and the order of
\* the collection are as the request found them.
UpdateFrame ==
    (Updated(last) /\ last.req.body = [status |-> "ready"]) =>
        /\ Len(store) = Len(last.before)
        /\ \E i \in 1..Len(store) :
              /\ last.before[i].id = last.req.id
              /\ \A j \in 1..Len(store) : j # i => store[j] = last.before[j]
              /\ DOMAIN store[i] = DOMAIN last.before[i] \cup {"updatedAt"}
              /\ \A f \in DOMAIN last.before[i] \ {"status", "updatedAt"} :
                    store[i][f] = last.before[i][f]
              /\ store[i].status = "ready"
              /\ store[i] = last.body

UpdateFrameWitness ==
    /\ Updated(last)
    /\ last.req.body = [status |-> "ready"]
    /\ Len(store) = 2
    /\ store # last.before
    /\ \E i \in 1..2 : store[i].status = "ready" /\ last.before[i].status = "pending"

\* C6 (as stated): after an update that answers 200, the order's updatedAt is
\* strictly later than its createdAt.
UpdatedAfterCreated ==
    Updated(last) => IsoTime(last.body.updatedAt) > IsoTime(last.body.createdAt)

\* C6 (amended): after an update that answers 200, the order's updatedAt is not
\* earlier than the time at which the create stamped the order.
UpdatedNotBeforeCreation ==
    Updated(last) => IsoTime(last.body.updatedAt) >= last.body.stampedAt

\* an update in the millisecond of the create: updatedAt equals createdAt
UpdatedInSameMillisecond ==
    /\ Updated(last)
    /\ last.body.createdAt = ISO(last.body.stampedAt)
    /\ last.body.updatedAt = last.body.createdAt

\* C7: an update leaves the id and the createdAt of the order it updates as
\* they were, whatever its body.
IdAndCreatedAtKept ==
    Updated(last) =>
        \E i \in 1..Len(last.before) :
            /\ last.before[i].id = last.req.id
            /\ \A j \in 1..(i - 1) : last.before[j].id # last.req.id
            /\ last.body.id = last.before[i].id
            /\ last.body.createdAt = last.before[i].createdAt

\* C8: a get, update or delete by an id that no order has answers 404 with an
\* error field.
NotFoundRel ==
    ( /\ IsRoute(last, "get") \/ IsRoute(last, "update") \/ IsRoute(last, "delete")
      /\ \A i \in 1..Len(last.before) : last.before[i].order_number # last.req.id )
    => (last.status = 404 /\ Has(last.body, "error"))

\* the same contract for the key-value handler, which keeps it
NotFoundKv ==
    ( /\ IsRoute(last, "get") \/ IsRoute(last, "update") \/ IsRoute(last, "delete")
      /\ last.req.id \notin Ids(last.before) )
    => (last.status = 404 /\ Has(last.body, "error"))

\* C9: with requests one at a time and no store failure, a clear answers 200 and
\* leaves the collection empty, also right after another clear, and the list
\* fetched right after a clear is empty.
ClearTwice ==
    /\ IsRoute(last, "clear") => (last.status = 200 /\ store = <<>>)
    /\ (IsRoute(prev, "clear") /\ IsRoute(last, "clear")) =>
          (prev.status = 200 /\ last.status = 200 /\ store = <<>>)
    /\ (IsRoute(prev, "clear") /\ IsRoute(last, "list")) =>
          (last.status = 200 /\ last.body.array = <<>>)

\* two clears in a row, the first of a collection that holds an order
ClearTwiceWitness ==
    /\ Cleared(prev)
    /\ Cleared(last)
    /\ prev.before # <<>>
    /\ last.before = <<>>
    /\ store = <<>>

\* C10: a clear whose store write fails answers 500, and a clear that answers
\* 200 leaves the collection empty.
ClearFailureSurfaced ==
    IsRoute(last, "clear") =>
        /\ last.wrote = "failed" => last.status = 500
        /\ last.status = 200 => store = <<>>

\* C11: a create, update or delete by id whose store write fails answers 500
\* with an error field, and the persisted collection is as the request found it.
WriteFailureSurfaced ==
    ( /\ IsRoute(last, "create") \/ IsRoute(last, "update") \/ IsRoute(last, "delete")
      /\ last.wrote = "failed" )
    => /\ last.status = 500
       /\ Has(last.body, "error")
       /\ store = last.before

\* an update of an order of a collection of two, its write failing
WriteFailureWitness ==
    /\ IsRoute(last, "update")
    /\ last.wrote = "failed"
    /\ last.status = 500
    /\ Len(store) = 2
    /\ store = last.before
    /\ last.req.id \in Ids(store)

\* C12: a list never surfaces a store error: it answers 200, with the empty
\* sequence when the store read fails.
ListDegradesRel ==
    IsRoute(last, "list") => (last.status = 200 /\ last.wrote = "none")

\* the key-value handler's list: 200 with the whole persisted collection, or
\* with the empty sequence when the read fails
ListDegradesKv ==
    IsRoute(last, "list") =>
        /\ last.status = 200
        /\ last.body.array = last.before \/ last.body.array = <<>>
        /\ ~faulty => last.body.array = last.before

\* C13: a create gives the order the server's fields whatever the body holds:
\* id the clock at creation, status "pending", createdAt the time of creation.
CreateForcesServerFields ==
    Created(last) =>
        /\ last.body.id = last.body.stampedAt
        /\ last.body.status = "pending"
        /\ last.body.createdAt = ISO(last.body.stampedAt)

Idle == \A r \in Req : pc[r] = "idle"

\* C14: from an empty collection and with requests one at a time: after create
\* A and create B the list holds A and B; the delete by A's id answers 200; and
\* the list after it holds B and nothing else.
EndToEnd ==
    /\ (budget = 3 /\ Idle) =>
          (Created(prev) /\ Created(last) /\ store = <<prev.body, last.body>>)
    /\ budget = 2 =>
          (Created(prev) /\ Listed(last) /\ last.body.array = store
             /\ Len(store) = 2 /\ store[2] = prev.body)
    /\ (budget = 1 /\ Idle) =>
          (Deleted(last) /\ Len(last.before) = 2
             /\ last.req.id = last.before[1].id /\ store = <<last.before[2]>>)
    /\ budget = 0 =>
          (Deleted(prev) /\ Listed(last) /\ last.body.array = <<prev.before[2]>>)

\* the scenario when B is created in a later millisecond than A
EndToEndLaterIds ==
    /\ budget = 2 =>
          (Created(prev) /\ Listed(last) /\ last.body.array = store
             /\ Len(store) = 2 /\ store[2] = prev.body)
    /\ (budget = 0 /\ prev.before[1].id < prev.before[2].id) =>
          (Deleted(prev) /\ Listed(last) /\ last.body.array = <<prev.before[2]>>)

EndToEndLaterIdsWitness ==
    /\ budget = 0
    /\ Deleted(prev) /\ Listed(last)
    /\ prev.before[1].id < prev.before[2].id
    /\ last.body.array = <<prev.before[2]>>

\* C15: a request that matches no route answers 404 with error, path and
\* method, the path and method being those of the request, and neither reads
\* nor writes the store.
UnknownRoute ==
    IsRoute(last, "notfound") =>
        /\ last.status = 404
        /\ DOMAIN last.body = {"error", "path", "method"}
        /\ last.body.path = last.req.p
        /\ last.body.method = last.req.method
        /\ last.wrote = "none"
        /\ last.snap = <<>>
        /\ store = last.before

\* an unknown path, and a delete by an id that is no number, each after two
\* creates
UnknownRouteWitness ==
    /\ IsRoute(last, "notfound")
    /\ last.req.p \in {"/api/unknown", "/api/orders/abc"}
    /\ last.status = 404
    /\ last.body.path = last.req.p
    /\ Len(store) = 2

\* C16: an order is created with status "pending", and with requests one at a
\* time and no store failure an update whose body has a status answers 200 and
\* leaves the order with that status, whatever the order's status was
\* ("completed" included).
NoStatusMachine ==
    /\ Created(last) => last.body.status = "pending"
    /\ ( /\ IsRoute(last, "update")
         /\ Has(last.req.body, "status")
         /\ last.req.id \in Ids(last.before) )
       => /\ last.status = 200
          /\ last.body.status = last.req.body.status
          /\ store[FindIndex(last.before, last.req.id)].status = last.req.body.status

\* a completed order reopened
NoStatusMachineWitness ==
    /\ Updated(last)
    /\ last.req.body = [status |-> "ready"]
    /\ last.before[FindIndex(last.before, last.req.id)].status = "completed"
    /\ store[FindIndex(last.before, last.req.id)].status = "ready"

\* the status is one the handler sends, and a failure carries an error key
ResponseShape(e) ==
    /\ e.status \in {200, 201, 404, 500}
    /\ e.status \in {404, 500} => Has(e.body, "error")

\* a request that starts either answers at once or goes on to await its write,
\* a request whose write returns answers then, and nothing else is sent: one
\* response for each request
OneResponse ==
    /\ budget' < budget =>
          \/ pc' = pc /\ prev' = last /\ last'.req # NoReq
          \/ /\ \E r \in Req : pc[r] = "idle" /\ pc'[r] = "write"
             /\ UNCHANGED <<last, prev>>
    /\ \A r \in Req : (pc[r] = "write" /\ pc'[r] = "idle") =>
          (prev' = last /\ last'.req = slot[r].req)
    /\ (budget' = budget /\ pc' = pc) => UNCHANGED <<last, prev>>

\* every response has a status the handler sends, a failure an error key
ResponsesShaped == [](last.req # NoReq => ResponseShape(last))

\* every request sends one response
ResponsesOnce == [][OneResponse]_vars

\* every request that awaits its write ends
HandlersTerminate == \A r \in Req : (pc[r] = "write") ~> (pc[r] = "idle")

\* C17: whatever store reads and writes fail, every request ends having sent
\* one response, of status 200, 201, 404 or 500, a failure with an error key.
ErrorsCaught == ResponsesShaped /\ ResponsesOnce /\ HandlersTerminate

\* a create whose read failed and whose write failed, answered 500
ErrorsCaughtWitness ==
    /\ IsRoute(last, "create")
    /\ last.status = 500
    /\ last.wrote = "failed"
    /\ last.snap = <<>>
    /\ Len(last.before) > 0
    /\ Idle

\* C18: with no store configured, the relational handler answers a create, an
\* update, a delete by id and a clear with a failure status and calls no store,
\* and answers the health route 200, reporting the store as not configured.
Unconfigured ==
    ~configured =>
        /\ rows = <<>>
        /\ ( IsRoute(last, "create") \/ IsRoute(last, "update")
               \/ IsRoute(last, "delete") \/ IsRoute(last, "clear") )
           => /\ last.status \in {404, 500}
              /\ Has(last.body, "error")
              /\ last.wrote = "none"
        /\ IsRoute(last, "health")
           => /\ last.status = 200
              /\ last.body.dbConfigured = FALSE
              /\ last.body.storage = "Not Configured"

\* the health route and then a create, no store configured
UnconfiguredWitness ==
    /\ ~configured
    /\ IsRoute(prev, "health") /\ prev.status = 200 /\ prev.body.dbConfigured = FALSE
    /\ IsRoute(last, "create") /\ last.status = 500 /\ last.wrote = "none"
    /\ rows = <<>>

\* C19: of two creates, the second sent after the first was answered, the
\* second gets the greater id.
IdsIncrease ==
    (Created(prev) /\ Created(last)) => last.body.id > prev.body.id

\* the second never gets the smaller id, the clock not running backwards
IdsDoNotDecrease ==
    (Created(prev) /\ Created(last)) => last.body.id >= prev.body.id

\* C20: a list gives the orders in the order in which their creates were
\* persisted.  For the relational handler: the orders listed are those of the
\* rows, in the order of insertion.
InsertionOrderRel ==
    Listed(last) =>
        /\ Len(last.body.array) = Len(last.before)
        /\ \A i \in 1..Len(last.before) :
              last.body.array[i].id = last.before[i].order_number

\* the key-value handler with requests one at a time and no store failure: a
\* list gives the collection as it is, a create appends, an update replaces in
\* place, a delete keeps the others in their order
InsertionOrderKv ==
    /\ Listed(last) => last.body.array = last.before
    /\ Created(last) => store = Append(last.before, last.body)
    /\ Updated(last) =>
          store = [last.before EXCEPT ![FindIndex(last.before, last.req.id)] = last.body]
    /\ Deleted(last) =>
          store = SelectSeq(last.before, LAMBDA o : o.id # last.req.id)

\* the order an update found, in the collection as it was before the update
Found(e) == e.before[FindIndex(e.before, e.req.id)]

\* the step of an update that computes the order stamps it with the clock of
\* that step, whatever the body
StampedAtUpdate ==
    [][\A r \in Req :
          (pc[r] = "idle" /\ pc'[r] = "write" /\ Route(slot'[r].req) = "update")
          => slot'[r].out.updatedAt = ISO(clock)]_vars

\* the order answered and persisted carries that stamp, which is not earlier
\* than the stamp the order had, and the createdAt it had unless the body has one
StampKept ==
    [](Updated(last) =>
          /\ last.body \in Range(store)
          /\ IsoTime(last.body.updatedAt) <= clock
          /\ IsoTime(last.body.updatedAt) >= last.body.stampedAt
          /\ Has(Found(last), "updatedAt") =>
                IsoTime(last.body.updatedAt) >= IsoTime(Found(last).updatedAt)
          /\ ~Has(last.req.body, "createdAt") =>
                last.body.createdAt = Found(last).createdAt)

\* C21: with requests one at a time and no store failure, every update that
\* answers 200 leaves the order with updatedAt the server time of the update,
\* whatever the body, so updatedAt never decreases from one update to the next,
\* and with createdAt as it was when the body has no createdAt.
UpdatedAtStamped == StampedAtUpdate /\ StampKept

\* a second update of an order, a millisecond after the first, its body
\* carrying an updatedAt of its own
UpdatedAtStampedWitness ==
    /\ Updated(prev) /\ Updated(last)
    /\ prev.req.id = last.req.id
    /\ Has(last.req.body, "updatedAt")
    /\ Has(Found(last), "updatedAt")
    /\ IsoTime(last.body.updatedAt) > IsoTime(Found(last).updatedAt)
    /\ last.body.updatedAt # last.req.body.updatedAt
    /\ last.body.createdAt = Found(last).createdAt

-----------------------------------------------------------------------------
(* The two handlers of part_000 side by side: every request is served by the
   key-value handler first and then, with no tick of the clock in between, by
   the relational handler; after the second answer prev is the key-value
   handler's response and last the relational handler's. *)

MaxPairs == 3

KvTurn == budget % 2 = 0
RelTurn == budget % 2 = 1 /\ last'.req = last.req

NextBoth ==
    \/ KvTurn /\ Options
    \/ KvTurn /\ Health
    \/ KvTurn /\ ListOrders
    \/ KvTurn /\ GetOrder
    \/ KvTurn /\ \E r \in Req : CreateOrder(r)
    \/ KvTurn /\ \E r \in Req : UpdateOrder(r)
    \/ KvTurn /\ \E r \in Req : DeleteOrder(r)
    \/ \E r \in Req : WriteOrders(r)
    \/ KvTurn /\ ClearOrders
    \/ KvTurn /\ RouteNotFound
    \/ RelOptions /\ RelTurn
    \/ RelHealth /\ RelTurn
    \/ RelListOrders /\ RelTurn
    \/ RelCreateOrder /\ RelTurn
    \/ RelGetOrder /\ RelTurn
    \/ RelUpdateOrder /\ RelTurn
    \/ RelDeleteOrder /\ RelTurn
    \/ RelClearOrders /\ RelTurn
    \/ RelRouteNotFound /\ RelTurn
    \/ KvTurn /\ Tick

\* both stores configured and not failing, one request at a time
InitBoth == Start(FALSE, TRUE, 2 * MaxPairs, TRUE)
SpecBoth == InitBoth /\ [][NextBoth]_vars

\* both handlers have answered the same request
BothAnswered == KvTurn /\ last.req # NoReq /\ prev.req = last.req

\* an order as the client sees it
Visible(order) == [f \in DOMAIN order \ {"stampedAt"} |-> order[f]]
VisibleAll(orders) == [i \in 1..Len(orders) |-> Visible(orders[i])]

\* the two handlers give every request the same status
SameStatus == BothAnswered => prev.status = last.status

\* the two handlers give every list request the same orders in the same order
SameIdsListed ==
    (BothAnswered /\ Listed(prev) /\ Listed(last)) =>
        [i \in 1..Len(prev.body.array) |-> prev.body.array[i].id]
            = [i \in 1..Len(last.body.array) |-> last.body.array[i].id]

\* the two handlers give every list request the same list
SameList ==
    (BothAnswered /\ Listed(prev) /\ Listed(last)) =>
        VisibleAll(prev.body.array) = VisibleAll(last.body.array)

\* C22: for every serial sequence of requests, the store configured and not
\* failing, the relational handler and the key-value handler give each request
\* the same status and each GET /api/orders the same list.
HandlersEquivalent == SameStatus /\ SameList

-----------------------------------------------------------------------------
\* C23: whatever store reads fail, after every create that answers 201 the
\* persisted collection is the collection persisted before the request with
\* the new order appended.
CreateAppends == Created(last) => store = Append(last.before, last.body)

\* the same of the creates whose read of the collection succeeded
CreateAppendsWhenRead ==
    (Created(last) /\ last.snap = last.before) => store = Append(last.before, last.body)

CreateAppendsWhenReadWitness ==
    /\ Created(last)
    /\ last.snap = last.before
    /\ last.before # <<>>
    /\ store = Append(last.before, last.body)

-----------------------------------------------------------------------------
\* the requests that change nothing: the health route, OPTIONS, the list, the
\* get by id, and an update or a delete by id answered 404
Quiet(e) ==
    /\ e.req # NoReq
    /\ \/ Route(e.req) \in {"health", "options", "list", "get"}
       \/ Route(e.req) \in {"update", "delete"} /\ e.status = 404

\* such a request has attempted no write when it answers
QuietWroteNothing == [](Quiet(last) => last.wrote = "none")

\* the step that answers such a request leaves the persisted collection as it is
QuietStoreKept == [][Quiet(last') => store' = store]_vars

\* C24: under every interleaving of requests, the health route, OPTIONS, the
\* list, the get by id, and every update or delete by id that answers 404
\* perform no store write and leave the persisted collection unchanged.
QuietWritesNothing == QuietWroteNothing /\ QuietStoreKept

\* an update answered 404 for an id no order has, the collection not empty,
\* while another request is between its read and its write
QuietWritesNothingWitness ==
    /\ \E q \in Req : pc[q] = "write"
    /\ store # <<>>
    /\ IsRoute(last, "update") /\ last.status = 404
    /\ last.wrote = "none"
    /\ last.before = store

-----------------------------------------------------------------------------
\* the orders a delete by id or a clear that answered 200 removed
Removed(e) ==
    IF Cleared(e) THEN Range(e.before)
    ELSE IF Deleted(e) THEN {o \in Range(e.before) : o.id = e.req.id}
    ELSE {}

\* order o of an earlier collection is persisted (as it was, or updated), and
\* is not an order the last request created
Persisted(o) ==
    \E i \in 1..Len(store) :
        /\ store[i].id = o.id
        /\ store[i].stampedAt = o.stampedAt
        /\ ~(Created(last) /\ last.body = store[i])

\* C25: under every interleaving with requests that read the collection
\* before the removal was written, an order removed by a delete by id or a
\* clear that answered 200 is in no later persisted collection.
RemovedStayRemoved ==
    \A e \in {prev, last} : \A o \in Removed(e) : ~Persisted(o)

\* the removal, then the write of a request that had read the collection
\* after every write before the removal
RemovedStayRemovedWitness ==
    /\ Removed(prev) # {}
    /\ last.wrote = "ok"
    /\ ~last.stale
    /\ \A o \in Removed(prev) : ~Persisted(o)

====
